---- MODULE Spec2Model ----
(***************************************************************************)
(* MacroBuilder of babel-plugin-debug-macros (src/lib/utils/macro-builder). *)
(* The builder is driven by the host traversal of one module: the import   *)
(* visitor collects the debug-tools specifiers and inlines flag imports,   *)
(* the expression-statement visitor calls buildExpression, and the program *)
(* exit calls injectFlags.  The syntax tree is a row of statement slots    *)
(* (a Babel path is a slot; its content is the list of nodes that stand    *)
(* there now) plus the declarations unshifted to the top of the body.      *)
(***************************************************************************)
EXTENDS Integers, Sequences, FiniteSets, TLC

\* ------------------------------------------------------------------ bounds
\* Longest argument list of a generated assert call.
MaxArgs == 2

\* ------------------------------------------------------- program constants
DEBUG == "DEBUG"
EnvFlagsModule == "@ember/env-flags"

\* Host configuration: the modules the import visitor recognises.
DebugToolsModule == "debug-tools"
FeaturesModule == "features"

\* ------------------------------------------------------------ node builders
\* JS undefined / null, as nodes and as property values.
Undefined == [type |-> "undefined"]
Null == "<null>"

identifier(name) == [type |-> "Identifier", name |-> name]
stringLiteral(parts) == [type |-> "StringLiteral", value |-> parts]
numericLiteral(n) == [type |-> "NumericLiteral", value |-> n]
memberExpression(object, property) ==
    [type |-> "MemberExpression", object |-> object, property |-> property]
callExpression(callee, args) ==
    [type |-> "CallExpression", callee |-> callee, arguments |-> args]
logicalExpression(op, left, right) ==
    [type |-> "LogicalExpression", operator |-> op, left |-> left, right |-> right]
parenthesizedExpression(e) == [type |-> "ParenthesizedExpression", expression |-> e]
variableDeclaration(kind, id, init) ==
    [type |-> "VariableDeclaration", kind |-> kind, id |-> id, init |-> init]
objectExpression(props) == [type |-> "ObjectExpression", properties |-> props]
expressionStatement(e) == [type |-> "ExpressionStatement", expression |-> e]
importDeclaration(source, specifiers) ==
    [type |-> "ImportDeclaration", source |-> source, specifiers |-> specifiers]
importSpecifier(imported, local) == [imported |-> imported, local |-> local]

isCallExpression(n) == n.type = "CallExpression"
isIdentifier(n) == n.type = "Identifier"

\* expression.callee.name: a member-expression callee has no name.
CalleeName(call) == IF isIdentifier(call.callee) THEN call.callee.name ELSE "<undefined>"

\* Array.prototype.indexOf, 1-based; 0 when absent.
IndexOf(seq, x) ==
    IF \E i \in 1..Len(seq) : seq[i] = x
    THEN CHOOSE i \in 1..Len(seq) : seq[i] = x /\ \A j \in 1..(i - 1) : seq[j] # x
    ELSE 0

\* JS truthiness of a string-or-null property value.
Falsy(v) == v = Null \/ v = ""

\* An error thrown by the builder: its kind and the name it reports.
Thrown(kind, arg) == [kind |-> kind, arg |-> arg]
NoError == Thrown("", "")

\* ------------------------------------------------------ helper target (4.7)
_createGlobalExternalHelper(type, args, ns) ==
    callExpression(memberExpression(identifier(ns), identifier(type)), args)

_createExternalHelper(type, args) == callExpression(identifier(type), args)

_createConsoleAPI(type, args) ==
    callExpression(memberExpression(identifier("console"), identifier(type)), args)

\* args.filter(arg => t.isIdentifier(arg))
_getIdentifiers(args) == SelectSeq(args, isIdentifier)

\* The template string of _generateDeprecationMessage, as the list of its parts.
_generateDeprecationMessage(message, meta) ==
    stringLiteral(<<"DEPRECATED [", meta["id"], "]: ">> \o message.value
                  \o <<". Will be removed in ", meta["until"], ".">>
                  \o (IF Falsy(meta["url"]) THEN <<>>
                      ELSE <<" See ", meta["url"], " for more information.">>))

\* --------------------------------------------------- logical-guard compiler
\* identifiers[i] of a JS array (1-based here); past the end it is undefined.
At(seq, i) == IF i >= 1 /\ i <= Len(seq) THEN seq[i] ELSE Undefined

\* The for loop of the closure: i is the position of `left`.
RECURSIVE LogicalLoop(_, _, _)
LogicalLoop(identifiers, i, logicalExpressions) ==
    IF i > Len(identifiers) THEN logicalExpressions
    ELSE LET left == identifiers[i]
             right == At(identifiers, i + 1)
         IN IF logicalExpressions = Undefined
            THEN LogicalLoop(identifiers, i + 1, logicalExpression("&&", left, right))
            ELSE IF right # Undefined
            THEN LogicalLoop(identifiers, i + 1,
                             logicalExpression("&&", logicalExpressions, right))
            ELSE LogicalLoop(identifiers, i + 1, logicalExpressions)

\* A slip: the guard is pushed after the conditions instead of unshifted.
InvokeClosureGuardLast(identifiers, callExpr, binding) ==
    LET mutated == identifiers \o <<identifier(binding)>> \o <<callExpr>>
    IN [identifiers |-> mutated, result |-> LogicalLoop(mutated, 1, Undefined)]

\* One invocation of the closure returned by _buildLogicalExpressions: it
\* unshifts the guard and pushes the call onto its captured array, then folds.
\* The captured array stays mutated after the call.
InvokeClosure(identifiers, callExpr, binding) ==
    LET mutated == <<identifier(binding)>> \o identifiers \o <<callExpr>>
    IN [identifiers |-> mutated, result |-> LogicalLoop(mutated, 1, Undefined)]

\* A PendingExpansion: the call-site path and the closure's captured variables.
_buildLogicalExpressions(exp, identifiers, callExpr) ==
    [exp |-> exp, identifiers |-> identifiers, callExpression |-> callExpr]

\* ------------------------------------------------------ flag table resolver
\* specifiers.map(...): the declarations built so far are dropped when a
\* specifier is not in the table and the error is thrown.
RECURSIVE FlagConstantsFrom(_, _, _, _)
FlagConstantsFrom(specifiers, flagTable, i, acc) ==
    IF i > Len(specifiers) THEN [thrown |-> FALSE, flag |-> "", declarations |-> acc]
    ELSE LET name == specifiers[i].imported
         IN IF name \in DOMAIN flagTable
            THEN FlagConstantsFrom(specifiers, flagTable, i + 1,
                     Append(acc, variableDeclaration("const", identifier(name),
                                                     numericLiteral(flagTable[name]))))
            ELSE [thrown |-> TRUE, flag |-> name, declarations |-> <<>>]

generateFlagConstants(specifiers, flagTable) ==
    FlagConstantsFrom(specifiers, flagTable, 1, <<>>)

\* ------------------------------------------------------------------ inputs
\* The transformed module has four statements: a first import, a second
\* import, and two expression statements.
Slots == 1..4

ArgNodes == {identifier("x"), identifier("y"), stringLiteral(<<"m">>)}
ArgSeqs == UNION {[1..n -> ArgNodes] : n \in 0..MaxArgs}

property(key, value) == [key |-> key, value |-> value]
MetaObjects ==
    { objectExpression(<<property("id", "foo-dep"), property("until", ">=1")>>),
      objectExpression(<<property("url", "http://x"), property("id", "foo-dep"),
                         property("until", ">=2")>>),
      objectExpression(<<property("until", ">=2"), property("since", "1")>>),
      objectExpression(<<property("id", "foo-dep")>>),
      objectExpression(<<property("url", "http://x")>>) }

DeprecateCalls ==
    { callExpression(identifier("dep"),
                     <<stringLiteral(<<"m">>), identifier("p"), meta>>) : meta \in MetaObjects }

Calls ==
    { callExpression(identifier("assert"), a) : a \in ArgSeqs }
    \cup { callExpression(identifier("warn"), <<stringLiteral(<<"m">>)>>),
           callExpression(identifier("warn"), <<identifier("x"), stringLiteral(<<"m">>)>>) }
    \cup DeprecateCalls
    \cup { callExpression(identifier("inspect"), <<identifier("x")>>),
           callExpression(identifier("unbound"), <<identifier("x")>>),
           callExpression(memberExpression(identifier("console"), identifier("log")),
                          <<identifier("x")>>),
           identifier("x") }

SecondCalls ==
    { callExpression(identifier("warn"), <<identifier("y"), stringLiteral(<<"m">>)>>),
      callExpression(identifier("dep"),
                     <<stringLiteral(<<"m">>), identifier("p"),
                       objectExpression(<<property("id", "foo-dep"),
                                          property("until", ">=2")>>)>>) }

FirstImports ==
    { importDeclaration(DebugToolsModule,
          <<importSpecifier("assert", "assert"), importSpecifier("warn", "warn"),
            importSpecifier("deprecate", "dep"), importSpecifier("inspect", "inspect")>>),
      importDeclaration(DebugToolsModule, <<>>) }

SecondImports ==
    { importDeclaration(EnvFlagsModule,
          <<importSpecifier("DEBUG", "DEBUG"), importSpecifier("FOO", "FOO")>>),
      importDeclaration(EnvFlagsModule, <<importSpecifier("FOO", "DEBUG")>>),
      importDeclaration(EnvFlagsModule, <<importSpecifier("DEBUG", "D")>>),
      importDeclaration(FeaturesModule,
          <<importSpecifier("FEAT", "F"), importSpecifier("OFF", "OFF")>>),
      importDeclaration(FeaturesModule,
          <<importSpecifier("FEAT", "FEAT"), importSpecifier("NOPE", "NOPE")>>),
      importDeclaration("elsewhere", <<importSpecifier("DEBUG", "DEBUG")>>),
      importDeclaration(DebugToolsModule, <<importSpecifier("warn", "w")>>) }

Modules ==
    { [s \in Slots |-> CASE s = 1 -> <<i1>>
                         [] s = 2 -> <<i2>>
                         [] s = 3 -> <<expressionStatement(c1)>>
                         [] s = 4 -> <<expressionStatement(c2)>>] :
        i1 \in FirstImports, i2 \in SecondImports, c1 \in Calls, c2 \in SecondCalls }

\* options.externalizeHelpers: absent, or an object with module and global.
jsString(v) == [type |-> "string", value |-> v]
jsTrue == [type |-> "boolean", value |-> TRUE]
Truthy(v) == IF v.type = "undefined" THEN FALSE
             ELSE IF v.type = "string" THEN v.value # ""
             ELSE IF v.type = "boolean" THEN v.value
             ELSE TRUE
helpersObject(module, global) == [type |-> "object", module |-> module, global |-> global]
HelperOptions ==
    { Undefined,
      helpersObject(Undefined, Undefined),
      helpersObject(jsString(""), Undefined),
      helpersObject(jsTrue, jsString("NS")),
      helpersObject(jsString("helpers-mod"), Undefined) }

EnvTables == { "DEBUG" :> 1, ("DEBUG" :> 0) @@ ("FOO" :> 1) }
Versions == {1, 2}
FeatureTables ==
    << [featuresImport |-> FeaturesModule, flags |-> ("FEAT" :> 1) @@ ("OFF" :> 0)],
       [featuresImport |-> FeaturesModule, flags |-> ("FEAT" :> 0) @@ ("NOPE" :> 1)] >>

\* semver satisfies(version, range) on major versions and ">=n" ranges.
RangeMin(range) == CASE range = ">=1" -> 1 [] range = ">=2" -> 2 [] OTHER -> 3
satisfies(version, range) == version >= RangeMin(range)

\* The module scope as Babel crawls it on entry: one binding per import specifier.
ScopeOf(module) ==
    UNION { { [name |-> module[s][1].specifiers[i].local, kind |-> "module", slot |-> s,
                source |-> module[s][1].source] : i \in 1..Len(module[s][1].specifiers) } :
            s \in {r \in Slots : module[r][1].type = "ImportDeclaration"} }

\* ------------------------------------------------------------------- state
VARIABLES
    source,             \* the module as parsed, before any rewrite
    body,               \* the statements of the module: slot -> nodes standing there
    unshifted,          \* declarations unshifted to the top of the body
    scope,              \* path.scope: the bindings of the module
    expressions,        \* this.expressions
    localBindings,      \* this.localBindings
    importedBindings,   \* this.importedBindings
    importedDebugTools, \* this.importedDebugTools
    packageVersion,     \* this.packageVersion
    envFlags,           \* this.envFlags
    featureFlags,       \* this.featureFlags
    helpers,            \* this.helpers
    visited,            \* the slots the traversal has handed to the builder
    phase,              \* "scan", "done" or "failed"
    error,              \* the error thrown, NoError when none
    log,                \* the closure invocations of _expand, in order
    before,             \* tree and registry when the last operation started
    routed,             \* slot -> the builder buildExpression dispatched it to
    outcome,            \* "Synthesize" or "Reuse" once injectFlags chose
    cleaned,            \* the import slots _cleanImports touched, one per run
    lastOp              \* the last operation and the slot it was given

vars == <<source, body, unshifted, scope, expressions, localBindings, importedBindings,
          importedDebugTools, packageVersion, envFlags, featureFlags, helpers,
          visited, phase, error, log, before, routed, outcome, cleaned, lastOp>>

config == <<source, scope, packageVersion, envFlags, featureFlags, helpers>>

\* this.externalizeHelpers = !!options.externalizeHelpers
externalizeHelpers == helpers # Undefined

Snapshot == [body |-> body, unshifted |-> unshifted, expressions |-> expressions]

Init ==
    /\ source \in Modules
    /\ body = source
    /\ unshifted = <<>>
    /\ scope = ScopeOf(body)
    /\ expressions = <<>>
    /\ localBindings = <<>>
    /\ importedBindings = <<>>
    /\ importedDebugTools = FALSE
    /\ packageVersion \in Versions
    /\ envFlags \in EnvTables
    /\ featureFlags = FeatureTables
    /\ helpers \in HelperOptions
    /\ visited = {}
    /\ phase = "scan"
    /\ error = NoError
    /\ log = <<>>
    /\ before = Snapshot
    /\ routed = [s \in Slots |-> ""]
    /\ outcome = ""
    /\ cleaned = <<>>
    /\ lastOp = [name |-> "constructor", slot |-> 0]

\* The statement a path points at; a removed or multiply-replaced path has none.
NodeAt(s) == IF Len(body[s]) = 1 THEN body[s][1] ELSE Undefined

\* path.scope.getBinding(name)
getBinding(name) ==
    IF \E b \in scope : b.name = name THEN CHOOSE b \in scope : b.name = name
    ELSE Undefined

\* ------------------------------------------------------- expansion builders
\* What a builder did: the tree, the registry, and the error it threw if any.
Effect(b, e, err) == [body |-> b, expressions |-> e, error |-> err]

\* The helper call a warn or assert expands to.
HelperCall(type, args) ==
    IF externalizeHelpers
    THEN LET ns == helpers.global
         IN IF Truthy(ns)
            THEN _createGlobalExternalHelper(type, args, ns.value)
            ELSE _createExternalHelper(type, args)
    ELSE _createConsoleAPI(type, args)

\* A slip: warn passes the identifiers it computes as leading conditions.
WarnGuardsIdentifiers(s) ==
    LET args == NodeAt(s).expression.arguments
    IN Effect(body,
              Append(expressions,
                     _buildLogicalExpressions(s, _getIdentifiers(args),
                                              HelperCall("warn", args))),
              NoError)

_warn(s) ==
    LET args == NodeAt(s).expression.arguments
        warn == HelperCall("warn", args)
        identifiers == _getIdentifiers(args)
    IN Effect(body, Append(expressions, _buildLogicalExpressions(s, <<>>, warn)), NoError)

\* The meta record after the forEach over the object's properties: a later
\* property overwrites an earlier one, other keys are stored and never read.
MetaOf(properties) ==
    [k \in {"url", "id", "until"} \cup {properties[i].key : i \in 1..Len(properties)} |->
        IF \E i \in 1..Len(properties) : properties[i].key = k
        THEN properties[CHOOSE i \in 1..Len(properties) :
                            /\ properties[i].key = k
                            /\ \A j \in (i + 1)..Len(properties) : properties[j].key # k].value
        ELSE Null]

\* The helper call a live deprecation expands to.
DeprecateHelper(deprecationMessage) ==
    IF externalizeHelpers
    THEN LET ns == helpers.global
         IN IF Truthy(ns)
            THEN _createGlobalExternalHelper("deprecate", <<deprecationMessage>>, ns.value)
            ELSE _createExternalHelper("deprecate", <<deprecationMessage>>)
    ELSE _createConsoleAPI("warn", <<deprecationMessage>>)

\* The PendingExpansion of a live deprecation at slot s.
DeprecateExpansion(s) ==
    LET args == NodeAt(s).expression.arguments
        message == At(args, 1)
        predicate == At(args, 2)
        meta == MetaOf(At(args, 3).properties)
        deprecationMessage == _generateDeprecationMessage(message, meta)
    IN _buildLogicalExpressions(s, <<predicate>>, DeprecateHelper(deprecationMessage))

\* A slip: the expired call site is removed and still queued.
DeprecateQueuesExpired(s) ==
    LET meta == MetaOf(At(NodeAt(s).expression.arguments, 3).properties)
    IN IF Falsy(meta["id"]) THEN Effect(body, expressions, Thrown("ReferenceError", "id"))
       ELSE IF Falsy(meta["until"])
       THEN Effect(body, expressions, Thrown("ReferenceError", "until"))
       ELSE IF satisfies(packageVersion, meta["until"])
       THEN Effect([body EXCEPT ![s] = <<>>],
                   Append(expressions, DeprecateExpansion(s)), NoError)
       ELSE Effect(body, Append(expressions, DeprecateExpansion(s)), NoError)

\* A slip: the metadata is validated after the call site has been queued.
DeprecateValidatesLate(s) ==
    LET meta == MetaOf(At(NodeAt(s).expression.arguments, 3).properties)
        queued == Append(expressions,
                         _buildLogicalExpressions(s, <<At(NodeAt(s).expression.arguments, 2)>>,
                                                  Undefined))
    IN IF Falsy(meta["id"]) THEN Effect(body, queued, Thrown("ReferenceError", "id"))
       ELSE IF Falsy(meta["until"])
       THEN Effect(body, queued, Thrown("ReferenceError", "until"))
       ELSE IF satisfies(packageVersion, meta["until"])
       THEN Effect([body EXCEPT ![s] = <<>>], expressions, NoError)
       ELSE Effect(body, Append(expressions, DeprecateExpansion(s)), NoError)

_deprecate(s) ==
    LET meta == MetaOf(At(NodeAt(s).expression.arguments, 3).properties)
    IN IF Falsy(meta["id"]) THEN Effect(body, expressions, Thrown("ReferenceError", "id"))
       ELSE IF Falsy(meta["until"])
       THEN Effect(body, expressions, Thrown("ReferenceError", "until"))
       ELSE IF satisfies(packageVersion, meta["until"])
       THEN Effect([body EXCEPT ![s] = <<>>], expressions, NoError)
       ELSE Effect(body, Append(expressions, DeprecateExpansion(s)), NoError)

_assert(s) ==
    LET args == NodeAt(s).expression.arguments
        assert == HelperCall("assert", args)
        identifiers == _getIdentifiers(args)
    IN Effect(body, Append(expressions, _buildLogicalExpressions(s, identifiers, assert)),
              NoError)

\* ---------------------------------------------------------- macro dispatcher
\* The imported name buildExpression resolves the callee to, "" when the
\* expression is no call of a recorded local binding.
ImportedOf(s) ==
    LET expression == NodeAt(s).expression
    IN IF isCallExpression(expression) /\ IndexOf(localBindings, CalleeName(expression)) > 0
       THEN importedBindings[IndexOf(localBindings, CalleeName(expression))]
       ELSE ""

\* this[`_${imported}`](path, t): a name with no such method is a TypeError.
buildExpression(s) ==
    LET imported == ImportedOf(s)
    IN IF imported = "" THEN Effect(body, expressions, NoError)
       ELSE IF imported = "assert" THEN _assert(s)
       ELSE IF imported = "warn" THEN _warn(s)
       ELSE IF imported = "deprecate" THEN _deprecate(s)
       ELSE Effect(body, expressions, Thrown("TypeError", imported))

\* -------------------------------------------------- finalizer and cleanup
RECURSIVE ExpandFrom(_, _, _, _, _)
ExpandFrom(binding, i, b, e, l) ==
    IF i > Len(e) THEN [body |-> b, expressions |-> e, log |-> l]
    ELSE LET entry == e[i]
             r == InvokeClosure(entry.identifiers, entry.callExpression, binding)
         IN ExpandFrom(binding, i + 1,
                [b EXCEPT ![entry.exp] =
                    <<expressionStatement(parenthesizedExpression(r.result))>>],
                [e EXCEPT ![i].identifiers = r.identifiers],
                Append(l, [exp |-> entry.exp, binding |-> binding,
                           identifiers |-> entry.identifiers,
                           callExpression |-> entry.callExpression,
                           result |-> r.result]))

\* A slip: the loop starts at the second entry.
ExpandSkipsFirst(binding, b, e, l) == ExpandFrom(binding, 2, b, e, l)

_expand(binding, b, e, l) == ExpandFrom(binding, 1, b, e, l)

_hasDebugModule(debugBinding) ==
    LET fromModule == debugBinding # Undefined /\ debugBinding.kind = "module"
    IN fromModule /\ debugBinding.source = EnvFlagsModule

\* path.scope.generateUidIdentifier(DEBUG): no module here binds _DEBUG.
generateUidIdentifier(name) == "_" \o name

_injectDebug(name) ==
    <<variableDeclaration("const", identifier(name), numericLiteral(envFlags[DEBUG]))>>
    \o unshifted

\* A slip: the declaration is unshifted whether or not anything was queued.
SynthesizeAlways(name) == _injectDebug(name)

\* The guarded unshift in the Synthesize branch of injectFlags.
SynthesizeDeclaration(name) ==
    IF Len(expressions) > 0 THEN _injectDebug(name) ELSE unshifted

\* A slip: a helpers.module that is no string falls through to the removal.
CleanImportsRemovesUnlessString(b) ==
    IF Len(localBindings) > 0
    THEN LET declaring == getBinding(localBindings[1]).slot
         IN IF externalizeHelpers /\ Truthy(helpers.module)
                /\ helpers.module.type = "string"
            THEN [body |-> [b EXCEPT ![declaring] =
                               <<[b[declaring][1] EXCEPT !.source = helpers.module.value]>>],
                  touched |-> <<declaring>>]
            ELSE [body |-> [b EXCEPT ![declaring] = <<>>], touched |-> <<declaring>>]
    ELSE [body |-> b, touched |-> <<>>]

_cleanImports(b) ==
    IF Len(localBindings) > 0
    THEN LET declaring == getBinding(localBindings[1]).slot
         IN IF externalizeHelpers /\ Truthy(helpers.module)
            THEN IF helpers.module.type = "string"
                 THEN [body |-> [b EXCEPT ![declaring] =
                                    <<[b[declaring][1] EXCEPT
                                          !.source = helpers.module.value]>>],
                       touched |-> <<declaring>>]
                 ELSE [body |-> b, touched |-> <<>>]
            ELSE [body |-> [b EXCEPT ![declaring] = <<>>],
                  touched |-> <<declaring>>]
    ELSE [body |-> b, touched |-> <<>>]

\* generateFlagConstants over the import at slot s, then replaceWithMultiple.
inlineFlags(s, b, flagTable) ==
    LET r == generateFlagConstants(b[s][1].specifiers, flagTable)
    IN IF r.thrown THEN [body |-> b, error |-> Thrown("UnknownFlag", r.flag)]
       ELSE [body |-> [b EXCEPT ![s] = r.declarations], error |-> NoError]

inlineEnvFlags(s, b) == inlineFlags(s, b, envFlags)

\* The loop over this.featureFlags: the first table of the import's module.
inlineFeatureFlags(s, b) ==
    LET matches == {i \in 1..Len(featureFlags) :
                        featureFlags[i].featuresImport = b[s][1].source}
    IN IF matches = {} THEN [body |-> b, error |-> NoError]
       ELSE LET i == CHOOSE m \in matches : \A n \in matches : m <= n
            IN inlineFlags(s, b, featureFlags[i].flags)

\* injectFlags: its tree, registry, log, cleanup record and error.
injectFlags ==
    LET debugBinding == getBinding(DEBUG)
    IN IF ~_hasDebugModule(debugBinding)
       THEN LET name == generateUidIdentifier(DEBUG)
                top == SynthesizeDeclaration(name)
                ex == _expand(name, body, expressions, log)
                cl == _cleanImports(ex.body)
            IN [body |-> cl.body, unshifted |-> top, expressions |-> ex.expressions,
                log |-> ex.log, cleaned |-> <<cl.touched>>, error |-> NoError,
                outcome |-> "Synthesize"]
       ELSE LET ex == _expand(DEBUG, body, expressions, log)
                inl == inlineEnvFlags(debugBinding.slot, ex.body)
                cl == _cleanImports(inl.body)
            IN IF inl.error # NoError
               THEN [body |-> inl.body, unshifted |-> unshifted,
                     expressions |-> ex.expressions, log |-> ex.log, cleaned |-> <<>>,
                     error |-> inl.error, outcome |-> "Reuse"]
               ELSE [body |-> cl.body, unshifted |-> unshifted,
                     expressions |-> ex.expressions, log |-> ex.log,
                     cleaned |-> <<cl.touched>>, error |-> NoError, outcome |-> "Reuse"]

\* ------------------------------------------------------------------ actions
IsImport(s) == NodeAt(s) # Undefined /\ NodeAt(s).type = "ImportDeclaration"
IsExpressionStatement(s) ==
    NodeAt(s) # Undefined /\ NodeAt(s).type = "ExpressionStatement"

\* The import visitor hands the debug-tools import to collectSpecifiers.
CollectSpecifiers(s) ==
    /\ phase = "scan" /\ s \notin visited
    /\ IsImport(s) /\ NodeAt(s).source = DebugToolsModule
    /\ LET specifiers == NodeAt(s).specifiers
       IN /\ importedBindings' = importedBindings
                \o [i \in 1..Len(specifiers) |-> specifiers[i].imported]
          /\ localBindings' = localBindings
                \o [i \in 1..Len(specifiers) |-> specifiers[i].local]
    /\ importedDebugTools' = TRUE
    /\ visited' = visited \cup {s}
    /\ before' = Snapshot
    /\ lastOp' = [name |-> "collectSpecifiers", slot |-> s]
    /\ UNCHANGED <<body, unshifted, expressions, phase, error, log, routed, outcome,
                   cleaned, config>>

\* The import visitor hands every other import to inlineFeatureFlags.
InlineFeatureFlags(s) ==
    /\ phase = "scan" /\ s \notin visited
    /\ IsImport(s) /\ NodeAt(s).source \notin {DebugToolsModule, EnvFlagsModule}
    /\ LET r == inlineFeatureFlags(s, body)
       IN /\ body' = r.body
          /\ error' = r.error
          /\ phase' = IF r.error = NoError THEN "scan" ELSE "failed"
    /\ visited' = visited \cup {s}
    /\ before' = Snapshot
    /\ lastOp' = [name |-> "inlineFeatureFlags", slot |-> s]
    /\ UNCHANGED <<unshifted, expressions, localBindings, importedBindings,
                   importedDebugTools, log, routed, outcome, cleaned, config>>

\* An environment-flags import that does not declare the guard is inlined
\* directly; the one that declares it is left to injectFlags.
InlineEnvFlags(s) ==
    /\ phase = "scan" /\ s \notin visited
    /\ IsImport(s) /\ NodeAt(s).source = EnvFlagsModule
    /\ ~(_hasDebugModule(getBinding(DEBUG)) /\ getBinding(DEBUG).slot = s)
    /\ LET r == inlineEnvFlags(s, body)
       IN /\ body' = r.body
          /\ error' = r.error
          /\ phase' = IF r.error = NoError THEN "scan" ELSE "failed"
    /\ visited' = visited \cup {s}
    /\ before' = Snapshot
    /\ lastOp' = [name |-> "inlineEnvFlags", slot |-> s]
    /\ UNCHANGED <<unshifted, expressions, localBindings, importedBindings,
                   importedDebugTools, log, routed, outcome, cleaned, config>>

\* The slots the traversal has a builder call for.
Pending ==
    {s \in Slots \ visited :
        \/ IsExpressionStatement(s)
        \/ IsImport(s) /\ ~(_hasDebugModule(getBinding(DEBUG)) /\ getBinding(DEBUG).slot = s)}

\* The expression-statement visitor; the imports stand above the statements
\* and are visited first.
BuildExpression(s) ==
    /\ phase = "scan" /\ s \notin visited
    /\ IsExpressionStatement(s)
    /\ \A i \in Pending : ~IsImport(i)
    /\ LET r == buildExpression(s)
       IN /\ body' = r.body
          /\ expressions' = r.expressions
          /\ error' = r.error
          /\ phase' = IF r.error = NoError THEN "scan" ELSE "failed"
    /\ routed' = [routed EXCEPT ![s] = ImportedOf(s)]
    /\ visited' = visited \cup {s}
    /\ before' = Snapshot
    /\ lastOp' = [name |-> "buildExpression", slot |-> s]
    /\ UNCHANGED <<unshifted, localBindings, importedBindings, importedDebugTools,
                   log, outcome, cleaned, config>>

\* Program exit, once every statement has been visited.
InjectFlags ==
    /\ phase = "scan" /\ Pending = {}
    /\ LET r == injectFlags
       IN /\ body' = r.body
          /\ unshifted' = r.unshifted
          /\ expressions' = r.expressions
          /\ log' = r.log
          /\ cleaned' = r.cleaned
          /\ error' = r.error
          /\ outcome' = r.outcome
          /\ phase' = IF r.error = NoError THEN "done" ELSE "failed"
    /\ before' = Snapshot
    /\ lastOp' = [name |-> "injectFlags", slot |-> 0]
    /\ UNCHANGED <<localBindings, importedBindings, importedDebugTools, visited,
                   routed, config>>

Next ==
    \/ \E s \in Slots : CollectSpecifiers(s)
    \/ \E s \in Slots : InlineFeatureFlags(s)
    \/ \E s \in Slots : InlineEnvFlags(s)
    \/ \E s \in Slots : BuildExpression(s)
    \/ InjectFlags

Spec == Init /\ [][Next]_vars

\* ================================================================== claims
\* The guard name injectFlags resolved.
GuardName == IF outcome = "Reuse" THEN DEBUG ELSE "_DEBUG"

\* The statement a finalized call site is replaced with.
Replacement(e) == <<expressionStatement(parenthesizedExpression(e))>>

\* operands[1] && operands[2] && ... read as the left-associated chain.
RECURSIVE LeftChain(_)
LeftChain(operands) ==
    IF Len(operands) = 1 THEN operands[1]
    ELSE logicalExpression("&&", LeftChain(SubSeq(operands, 1, Len(operands) - 1)),
                           operands[Len(operands)])

\* The operands of a chain of &&, read off its left spine.
RECURSIVE Operands(_)
Operands(e) ==
    IF e.type = "LogicalExpression" THEN Append(Operands(e.left), e.right) ELSE <<e>>

\* The arguments of the call the module has at slot s, as parsed.
SourceArgs(s) == source[s][1].expression.arguments

\* The positions of the expansions registered for slot s.
RegisteredFor(s) == {i \in 1..Len(expressions) : expressions[i].exp = s}

\* C1: once injectFlags has run, every registered PendingExpansion has been
\* resolved exactly once: the closures were invoked in registration order, one
\* per entry, all with the same guard name, each call site holds its closure's
\* result, and no closure ran before injectFlags.
C1_ResolvedOnceInOrder ==
    /\ outcome = "" =>
          /\ log = <<>>
          /\ \A i \in 1..Len(expressions) :
                body[expressions[i].exp] = source[expressions[i].exp]
    /\ outcome # "" =>
          /\ Len(log) = Len(expressions)
          /\ \A i \in 1..Len(log) :
                /\ log[i].exp = expressions[i].exp
                /\ log[i].binding = GuardName
                /\ body[log[i].exp] = Replacement(log[i].result)
                /\ expressions[i].identifiers =
                      <<identifier(GuardName)>> \o log[i].identifiers
                          \o <<log[i].callExpression>>
          /\ \A i, j \in 1..Len(log) : log[i].exp = log[j].exp => i = j
          /\ unshifted # <<>> => unshifted[1].id = identifier(GuardName)

\* Two expansions registered against source order, both finalized.
C1_Witness ==
    /\ phase = "done"
    /\ Len(log) = 2
    /\ log[1].exp > log[2].exp

\* C2: each closure invocation with guard g, conditions c_1..c_n and terminal T
\* yields the left-associated chain g && c_1 && ... && c_n && T: g leftmost, the
\* conditions in order, T rightmost and once; g && T when n = 0.
C2_ClosureYieldsLeftChain ==
    \A i \in 1..Len(log) :
        LET g == identifier(log[i].binding)
            conds == log[i].identifiers
            T == log[i].callExpression
        IN /\ log[i].result = LeftChain(<<g>> \o conds \o <<T>>)
           /\ Operands(log[i].result) = <<g>> \o conds \o <<T>>
           /\ conds = <<>> => log[i].result = logicalExpression("&&", g, T)

\* One closure with two leading conditions and one with none were invoked.
C2_Witness ==
    /\ \E i \in 1..Len(log) : Len(log[i].identifiers) = MaxArgs
    /\ \E i \in 1..Len(log) : Len(log[i].identifiers) = 0

\* C3: in the Synthesize outcome one guard declaration is unshifted iff at least
\* one PendingExpansion is registered; in the Reuse outcome, and before
\* injectFlags, none is.
C3_DeclarationIffPending ==
    /\ outcome = "" => unshifted = <<>>
    /\ outcome = "Reuse" => unshifted = <<>>
    /\ outcome = "Synthesize" =>
          IF Len(expressions) > 0
          THEN unshifted = <<variableDeclaration("const", identifier("_DEBUG"),
                                                 numericLiteral(envFlags[DEBUG]))>>
          ELSE unshifted = <<>>

\* A module whose only diagnostic calls were expired deprecations was finalized.
C3_Witness ==
    /\ phase = "done" /\ outcome = "Synthesize"
    /\ routed[3] = "deprecate" /\ body[3] = <<>>
    /\ routed[4] = "deprecate" /\ body[4] = <<>>

\* Whether the deprecate call at slot s has both id and until.
ValidMeta(s) ==
    LET meta == MetaOf(SourceArgs(s)[3].properties)
    IN ~Falsy(meta["id"]) /\ ~Falsy(meta["until"])

Expired(s) == satisfies(packageVersion, MetaOf(SourceArgs(s)[3].properties)["until"])

\* C4: a deprecate call with valid metadata whose until range the package
\* version satisfies is removed and never registered; otherwise it stays and is
\* registered exactly once with its predicate as the only leading condition.
C4_ExpiredRemovedElseQueued ==
    \A s \in Slots :
        routed[s] = "deprecate" /\ ValidMeta(s) =>
            IF Expired(s)
            THEN body[s] = <<>> /\ RegisteredFor(s) = {}
            ELSE /\ body[s] # <<>>
                 /\ Cardinality(RegisteredFor(s)) = 1
                 /\ \A i \in RegisteredFor(s) :
                       IF outcome = ""
                       THEN /\ expressions[i].identifiers = <<SourceArgs(s)[2]>>
                            /\ body[s] = source[s]
                       ELSE log[i].identifiers = <<SourceArgs(s)[2]>>

\* An expired deprecation was removed and a live one queued in the same module.
C4_Witness ==
    /\ routed[3] = "deprecate" /\ ValidMeta(3) /\ Expired(3) /\ body[3] = <<>>
    /\ routed[4] = "deprecate" /\ ValidMeta(4) /\ ~Expired(4)
    /\ RegisteredFor(4) # {}

\* The keys the metadata object of the deprecate call at slot s has.
MetaKeys(s) ==
    {SourceArgs(s)[3].properties[i].key : i \in 1..Len(SourceArgs(s)[3].properties)}

\* C5: a deprecate call whose metadata lacks id or until fails with a reference
\* error naming a missing field, with the tree and the registry as they were
\* when the builder was entered.
C5_MissingMetaFailsBeforeRewrite ==
    \A s \in Slots :
        routed[s] = "deprecate" /\ ~({"id", "until"} \subseteq MetaKeys(s)) =>
            /\ phase = "failed"
            /\ lastOp = [name |-> "buildExpression", slot |-> s]
            /\ error.kind = "ReferenceError"
            /\ error.arg \in {"id", "until"} \ MetaKeys(s)
            /\ body = before.body
            /\ unshifted = before.unshifted
            /\ expressions = before.expressions
            /\ body[s] = source[s]
            /\ RegisteredFor(s) = {}

\* The builder failed on a missing until after another call had been queued.
C5_Witness ==
    /\ error = Thrown("ReferenceError", "until")
    /\ routed[3] = "deprecate"
    /\ Len(expressions) = 1

\* Whether the flag import at slot s has been replaced by declarations.
Inlined(s) ==
    /\ source[s][1].type = "ImportDeclaration"
    /\ source[s][1].source \in {EnvFlagsModule, FeaturesModule}
    /\ body[s] # source[s]

\* The table the import at slot s is inlined from.
FlagTableOf(s) ==
    IF source[s][1].source = EnvFlagsModule THEN envFlags ELSE featureFlags[1].flags

\* C6: flag inlining produces one constant declaration per specifier, in
\* specifier order, the i-th binding the i-th specifier's local name to the
\* table's value under its imported name.
C6_ConstantsBindLocalNames ==
    \A s \in Slots :
        Inlined(s) =>
            LET specifiers == source[s][1].specifiers
            IN body[s] = [i \in 1..Len(specifiers) |->
                            variableDeclaration("const", identifier(specifiers[i].local),
                                numericLiteral(FlagTableOf(s)[specifiers[i].imported]))]

\* C7: an operation that fails with an unknown-flag error leaves the module
\* tree as it was when the operation started.
C7_UnknownFlagLeavesTreeAsBefore ==
    error.kind = "UnknownFlag" =>
        /\ body = before.body
        /\ unshifted = before.unshifted

\* C8: buildExpression on an expression it does not recognise (no call, a
\* callee that is no recorded binding, or a binding whose imported name is not
\* assert, warn or deprecate) throws nothing and changes nothing.
C8_UnrecognisedIsSilentNoOp ==
    \A s \in Slots :
        /\ lastOp = [name |-> "buildExpression", slot |-> s]
        /\ routed[s] \notin {"assert", "warn", "deprecate"}
        => /\ error = NoError
           /\ body = before.body
           /\ unshifted = before.unshifted
           /\ expressions = before.expressions

\* The import statements import cleanup has no business with: every import but
\* slot d and the guard's own import, which the Reuse outcome inlines.
OtherImportsUntouched(d) ==
    \A s \in Slots \ {d} :
        /\ source[s][1].type = "ImportDeclaration"
        /\ ~(outcome = "Reuse" /\ s = getBinding(DEBUG).slot)
        => body[s] = before.body[s]

\* The import statement that declares the first collected local binding.
FirstHelperImport == getBinding(localBindings[1]).slot

Rewritten(d) == <<[source[d][1] EXCEPT !.source = helpers.module.value]>>

\* C9 as stated: after injectFlags, cleanup ran once; the first helper import is
\* rewritten when externalization has a (non-empty) module string and deleted
\* otherwise; no other import is touched.
C9_RewrittenElseDeleted ==
    phase = "done" =>
        /\ Len(cleaned) = 1
        /\ IF Len(localBindings) > 0
           THEN /\ IF externalizeHelpers /\ helpers.module.type = "string"
                      /\ helpers.module.value # ""
                   THEN body[FirstHelperImport] = Rewritten(FirstHelperImport)
                   ELSE body[FirstHelperImport] = <<>>
                /\ OtherImportsUntouched(FirstHelperImport)
           ELSE OtherImportsUntouched(0)

\* C9 amended: after injectFlags, cleanup ran once and touched at most one
\* import; the first helper import is rewritten when externalization is on and
\* helpers.module is a non-empty string, left as it is when helpers.module is
\* another truthy value, and deleted otherwise; with no helper binding
\* collected no import is touched.
C9_RewrittenKeptOrDeleted ==
    phase = "done" =>
        /\ Len(cleaned) = 1
        /\ Len(cleaned[1]) <= 1
        /\ IF Len(localBindings) > 0
           THEN /\ IF externalizeHelpers /\ Truthy(helpers.module)
                   THEN IF helpers.module.type = "string"
                        THEN body[FirstHelperImport] = Rewritten(FirstHelperImport)
                        ELSE body[FirstHelperImport] = source[FirstHelperImport]
                   ELSE body[FirstHelperImport] = <<>>
                /\ OtherImportsUntouched(FirstHelperImport)
           ELSE OtherImportsUntouched(0)

\* Cleanup ran with helpers.module set to true and kept the helper import.
C9_Witness ==
    /\ phase = "done"
    /\ Len(localBindings) > 0
    /\ externalizeHelpers /\ helpers.module = jsTrue
    /\ body[FirstHelperImport] = source[FirstHelperImport]

\* The identifier nodes among args, in argument order.
RECURSIVE IdentifierArgs(_)
IdentifierArgs(args) ==
    IF args = <<>> THEN <<>>
    ELSE (IF Head(args).type = "Identifier" THEN <<Head(args)>> ELSE <<>>)
         \o IdentifierArgs(Tail(args))

\* The callees the helper target selector may give helper `type`.
HelperCallees(type) ==
    { memberExpression(identifier("console"), identifier(type)),
      identifier(type),
      memberExpression(identifier("NS"), identifier(type)) }

\* The terminal call of the replacement standing at slot s.
TerminalAt(s) == body[s][1].expression.expression.right

\* C10: a finalized assert call is g && i_1 && ... && i_k && H(args), with args
\* the call's own arguments unchanged and i_1..i_k its identifier arguments in
\* order; a finalized warn call is g && H(args) with no leading condition; and
\* until finalization the registered call is left as written.
C10_AssertGuardsIdentifiersWarnDoesNot ==
    \A s \in Slots :
        /\ routed[s] \in {"assert", "warn"} /\ outcome = "" => body[s] = source[s]
        /\ routed[s] = "assert" /\ outcome # "" =>
              /\ body[s] = Replacement(LeftChain(<<identifier(GuardName)>>
                               \o IdentifierArgs(SourceArgs(s)) \o <<TerminalAt(s)>>))
              /\ TerminalAt(s).type = "CallExpression"
              /\ TerminalAt(s).arguments = SourceArgs(s)
              /\ TerminalAt(s).callee \in HelperCallees("assert")
        /\ routed[s] = "warn" /\ outcome # "" =>
              /\ body[s] = Replacement(logicalExpression("&&", identifier(GuardName),
                                                         TerminalAt(s)))
              /\ TerminalAt(s).type = "CallExpression"
              /\ TerminalAt(s).arguments = SourceArgs(s)
              /\ TerminalAt(s).callee \in HelperCallees("warn")

\* An assert with an identifier argument and a warn with one were finalized.
C10_Witness ==
    /\ phase = "done"
    /\ routed[3] = "assert" /\ IdentifierArgs(SourceArgs(3)) # <<>>
    /\ routed[4] = "warn" /\ IdentifierArgs(SourceArgs(4)) # <<>>

====
